---- MODULE Spec2Model ----
(***************************************************************************)
(* go-bb: rewrite of a Benchmark* function into a free-standing function.  *)
(*                                                                         *)
(* Two state machines are modelled:                                        *)
(*   Spec      removeReferencesToIdentifier (main.go:309-362): the         *)
(*             astutil.Apply traversal with its pre- and post-order        *)
(*             callbacks over a function body kept as a heap of AST nodes. *)
(*   MainSpec  main (main.go:43-167) with findBenchmarkFuncs and           *)
(*             rewriteBenchFuncInPlace: the orchestration steps and the    *)
(*             scratch file system they act on.                            *)
(***************************************************************************)
EXTENDS Integers, Sequences, FiniteSets, TLC

VARIABLES
    \* --- removeReferencesToIdentifier ---
    heap,       \* node id -> the node's fields: per slot the child ids (0: nil)
    stack,      \* the active apply() calls; the last one holds the cursor
    phase,      \* "pre" | "post": callback to run on the cursor; "done": Apply returned
    depth,      \* main.go:310
    deleteMe,   \* main.go:311
    \* --- history of the traversal (not read by the program) ---
    root,       \* which function body is rewritten (its place in Parsed)
    visited,    \* node ids handed to the pre-order callback
    pending,    \* harness calls whose raise of deleteMe has not been cleared yet
    removed,    \* one record per c.Delete(): the node removed and on whose account
    \* --- main ---
    pc,              \* the step of main that runs next
    pkg,             \* the imported package: its test files as the parser reads them
    nameFlag,        \* -n
    foundBenchFuncs, \* main.go:77
    params,          \* d.Type.Params of the selected declaration, once parsed
    transformed,     \* the declaration has been rewritten in memory (main.go:260-274)
    fs,              \* what the run has created in the file system
    exit,            \* "" while running, "ok", or why the run was aborted
    \* --- history of the run (not read by the program) ---
    log,             \* the steps started, in order
    failed           \* the steps that failed

tvars == <<root, heap, stack, phase, depth, deleteMe, visited, pending, removed>>

mvars == <<pc, pkg, nameFlag, foundBenchFuncs, params, transformed, fs, exit, log, failed>>

vars == <<tvars, mvars>>

-----------------------------------------------------------------------------
(* Bounds of the model *)

\* number of statements of a function body, nested ones included
MaxStmts == 3

\* number of test files of the package
MaxFiles == 2

\* number of declarations in the test files of the package, all together
MaxDecls == 2

-----------------------------------------------------------------------------
(* go/ast nodes.  A tree is the sequence of its nodes in pre-order; a node *)
(* names a child by the distance to it in that sequence (0: a nil child).  *)
(* A slot is one field of the node that holds children, in the order       *)
(* astutil.Apply walks the fields; list slots are the fields walked with   *)
(* applyList.                                                              *)

(* Where a tree is used many times over it is bound by  e \in {tree} , so  *)
(* that it is built once.                                                  *)

\* a nil child: no node
Nil == <<>>

\* c.Node() of a nil child
NilNode == [kind |-> "nil", name |-> "", obj |-> "", op |-> "", slots |-> <<>>]

One(t) == [list |-> FALSE, kids |-> <<t>>]

Many(ts) == [list |-> TRUE, kids |-> ts]

RECURSIVE Flat(_)
\* the children of all slots, in walk order
Flat(slots) == IF slots = <<>> THEN <<>> ELSE Head(slots).kids \o Flat(Tail(slots))

RECURSIVE Concat(_)
Concat(ts) == IF ts = <<>> THEN <<>> ELSE Head(ts) \o Concat(Tail(ts))

\* a node of the given kind with the given children, followed by their trees
Node(kind, name, obj, op, slots) ==
    CHOOSE t \in UNION { {
        LET dist(j) == IF ks[j] = Nil THEN 0 ELSE 1 + Len(Concat(SubSeq(ks, 1, j - 1)))
            first(s) == Len(Flat(SubSeq(sl, 1, s - 1)))
        IN  << [kind |-> kind, name |-> name, obj |-> obj, op |-> op,
                slots |-> [s \in 1..Len(sl) |->
                    [list |-> sl[s].list,
                     ids |-> [k \in 1..Len(sl[s].kids) |-> dist(first(s) + k)]]]] >>
            \o Concat(ks)
        : ks \in {Flat(sl)} } : sl \in {slots} } : TRUE

Ident(name, obj) == Node("Ident", name, obj, "", <<>>)

\* fields X, Sel
SelectorExpr(X, Sel) == Node("SelectorExpr", "", "", "", <<One(X), One(Sel)>>)

\* fields Fun, Args
CallExpr(Fun, Args) == Node("CallExpr", "", "", "", <<One(Fun), Many(Args)>>)

\* fields X, Y
BinaryExpr(X, op, Y) == Node("BinaryExpr", "", "", op, <<One(X), One(Y)>>)

\* field X
ExprStmt(X) == Node("ExprStmt", "", "", "", <<One(X)>>)

\* fields Lhs, Rhs
AssignStmt(Lhs, Rhs) == Node("AssignStmt", "", "", "", <<Many(Lhs), Many(Rhs)>>)

\* field List
BlockStmt(List) == Node("BlockStmt", "", "", "", <<Many(List)>>)

\* fields Init, Cond, Body, Else
IfStmt(Init, Cond, Body, Else) ==
    Node("IfStmt", "", "", "", <<One(Init), One(Cond), One(Body), One(Else)>>)

\* fields Init, Cond, Post, Body
ForStmt(Init, Cond, Post, Body) ==
    Node("ForStmt", "", "", "", <<One(Init), One(Cond), One(Post), One(Body)>>)

\* Apply's  parent := &struct{ ast.Node }{root}
Holder(t) == Node("holder", "", "", "", <<One(t)>>)

\* ast.Object identities the parser resolves identifiers to
ParamObj == "param"     \* the declaration of the function's parameter b
LocalObj == "local"     \* a local variable also named b, shadowing the parameter
NoObj    == "none"      \* unresolved (declared in another file or package)

\* testingBIdent (main.go:260): the parameter's own identifier
id == [name |-> "b", obj |-> ParamObj]

-----------------------------------------------------------------------------
(* The function bodies the traversal is run on *)

b     == Ident("b", ParamObj)
bLoc  == Ident("b", LocalObj)
x     == Ident("x", "x")
i     == Ident("i", "i")
f     == Ident("f", NoObj)

\* b.X()  on the parameter, and on the shadowing local
HCall == CallExpr(SelectorExpr(b, Ident("X", NoObj)), <<>>)
SCall == CallExpr(SelectorExpr(bLoc, Ident("X", NoObj)), <<>>)

SimpleStmts ==
    << ExprStmt(HCall),                          \* b.X()
       ExprStmt(SCall),                          \* b.X()  (b a local)
       ExprStmt(CallExpr(f, <<x>>)),             \* f(x)
       ExprStmt(CallExpr(f, <<HCall, x>>)),      \* f(b.X(), x)
       AssignStmt(<<x>>, <<HCall>>) >>           \* x = b.X()

\* statements with a body, given the body's statement list
Compound(body) ==
    << IfStmt(Nil, HCall, BlockStmt(body), Nil),                         \* if b.X() { ... }
       ForStmt(Nil, BinaryExpr(i, "<", SelectorExpr(b, Ident("N", NoObj))),
               Nil, BlockStmt(body)),                                    \* for i < b.N { ... }
       ForStmt(Nil, BinaryExpr(i, "<", SelectorExpr(bLoc, Ident("N", NoObj))),
               Nil, BlockStmt(body)) >>                                  \* for i < b.N (b a local)

\* every statement of ss in front of every list of ls
Cross(ss, ls) ==
    [k \in 1..(Len(ss) * Len(ls)) |->
        <<ss[((k - 1) \div Len(ls)) + 1]>> \o ls[((k - 1) % Len(ls)) + 1]]

RECURSIVE StmtsOfSize(_), ListsOfSize(_), ListsFrom(_, _)
\* the statements made of exactly n statements
StmtsOfSize(n) ==
    IF n = 1 THEN SimpleStmts \o Compound(<<>>)
    ELSE CHOOSE ss \in {
             [k \in 1..(w * Len(ls)) |-> Compound(ls[((k - 1) \div w) + 1])[((k - 1) % w) + 1]] :
             ls \in {ListsOfSize(n - 1)}, w \in {Len(Compound(<<>>))} } : TRUE

\* the statement lists made of exactly n statements whose first has m or more
ListsFrom(n, m) ==
    IF m > n THEN <<>>
    ELSE (CHOOSE c \in { Cross(ss, ls) : ss \in {StmtsOfSize(m)}, ls \in {ListsOfSize(n - m)} } : TRUE)
         \o ListsFrom(n, m + 1)

\* the statement lists made of exactly n statements
ListsOfSize(n) == IF n = 0 THEN << <<>> >> ELSE ListsFrom(n, 1)

RECURSIVE BodiesUpTo(_)
BodiesUpTo(n) ==
    IF n < 0 THEN <<>>
    ELSE BodiesUpTo(n - 1) \o
         (CHOOSE bs \in { [k \in 1..Len(ls) |-> BlockStmt(ls[k])] : ls \in {ListsOfSize(n)} } : TRUE)

\* parser.ParseFile: the nodes allocated, children named by node id
Parse(t) ==
    CHOOSE p \in {
        [n \in 1..Len(tr) |->
            [tr[n] EXCEPT !.slots = [s \in 1..Len(tr[n].slots) |->
                [list |-> tr[n].slots[s].list,
                 ids |-> [k \in 1..Len(tr[n].slots[s].ids) |->
                            IF tr[n].slots[s].ids[k] = 0 THEN 0 ELSE n + tr[n].slots[s].ids[k]]]]]]
        : tr \in {t} } : TRUE

\* the function bodies, each parsed under Apply's holder of the root
Parsed ==
    CHOOSE ps \in { [k \in 1..Len(bs) |-> Parse(Holder(bs[k]))] : bs \in {BodiesUpTo(MaxStmts)} } : TRUE

HolderId == 1
RootId == 2

-----------------------------------------------------------------------------
(* astutil.Cursor and the walk of astutil.Apply *)

\* node id -> the node as parsed: its kind, and its fields before the traversal
src == Parsed[root]

NoCursor == [node |-> -1, parent |-> -1, slot |-> -1, index |-> -1]

Top == stack[Len(stack)]

\* c.Node(): the node under the cursor (NilNode for a nil child)
NodeAt(n) == IF n = 0 THEN NilNode ELSE src[n]

\* the fields of a parsed node: per slot, the ids of its children
Fields(node) == [s \in 1..Len(node.slots) |-> node.slots[s].ids]

\* c.Index()
Index(c) == c.index

\* Replace as it would be if the cursor's index were ignored
ReplaceFirst(h, c, n) == [h EXCEPT ![c.parent][c.slot][1] = n]

\* c.Replace(n): sets the parent's field, or its list element
Replace(h, c, n) ==
    [h EXCEPT ![c.parent][c.slot][IF Index(c) >= 0 THEN Index(c) + 1 ELSE 1] = n]

\* c.Delete(): removes the element at the cursor's index from the parent's list
Delete(h, c) ==
    LET l == h[c.parent][c.slot]
    IN  [h EXCEPT ![c.parent][c.slot] =
            SubSeq(l, 1, Index(c)) \o SubSeq(l, Index(c) + 2, Len(l))]

RECURSIVE FirstFrom(_, _, _)
\* the first child apply() is called on among the fields s, s+1, ... of n:
\* a single field is walked even when nil, a list field element by element
FirstFrom(h, n, s) ==
    IF n = 0 \/ s > Len(h[n]) THEN NoCursor
    ELSE IF ~src[n].slots[s].list
         THEN [node |-> h[n][s][1], parent |-> n, slot |-> s, index |-> -1]
         ELSE IF h[n][s] # <<>>
              THEN [node |-> h[n][s][1], parent |-> n, slot |-> s, index |-> 0]
              ELSE FirstFrom(h, n, s + 1)

\* applyList's  a.iter.index += a.iter.step  and reload of the list, then the
\* parent's remaining fields
NextAfter(h, c, step) ==
    LET l == h[c.parent][c.slot]
    IN  IF Index(c) >= 0 /\ Index(c) + step < Len(l)
        THEN [node |-> l[Index(c) + step + 1], parent |-> c.parent, slot |-> c.slot,
              index |-> Index(c) + step]
        ELSE FirstFrom(h, c.parent, c.slot + 1)

\* pre returned true: walk the children of the node apply() was called on
Descend(h, stk) ==
    LET nx == FirstFrom(h, stk[Len(stk)].node, 1)
    IN  IF nx = NoCursor THEN [stack |-> stk, phase |-> "post"]
        ELSE [stack |-> Append(stk, nx), phase |-> "pre"]

\* apply() returns (pre returned false, or post has run): the caller goes on
Return(h, stk, step) ==
    LET c == stk[Len(stk)]
        rest == SubSeq(stk, 1, Len(stk) - 1)
        nx == NextAfter(h, c, step)
    IN  IF rest = <<>> THEN [stack |-> rest, phase |-> "done"]
        ELSE IF nx = NoCursor THEN [stack |-> rest, phase |-> "post"]
        ELSE [stack |-> Append(rest, nx), phase |-> "pre"]

-----------------------------------------------------------------------------
(* The callbacks of removeReferencesToIdentifier *)

\* SameObj as it would be if identifiers were compared by name
SameName(ident) == ident.name = id.name

\* main.go:330 and 343:  ident.Obj == id.Obj
SameObj(ident) == ident.obj = id.obj

\* main.go:326-330 and 339-343:  sel, ok := e.(*ast.SelectorExpr);
\*     ident, ok := sel.X.(*ast.Ident); ok && ident.Obj == id.Obj
SelectsId(h, e) ==
    /\ NodeAt(e).kind = "SelectorExpr"
    /\ NodeAt(h[e][1][1]).kind = "Ident"
    /\ SameObj(NodeAt(h[e][1][1]))

\* main.go:324-334: case *ast.CallExpr whose Fun selects from id
IsCallOnId(h, n) ==
    /\ NodeAt(n).kind = "CallExpr"
    /\ SelectsId(h, h[n][1][1])

\* main.go:335-348: case *ast.ForStmt whose Cond is  ? < id.?
IsLoopOnId(h, n) ==
    /\ NodeAt(n).kind = "ForStmt"
    /\ NodeAt(h[n][2][1]).kind = "BinaryExpr"
    /\ NodeAt(h[n][2][1]).op = "<"
    /\ SelectsId(h, h[h[n][2][1]][2][1])

\* v.Body of a ForStmt
BodyOf(h, n) == h[n][4][1]

\* pre, case *ast.CallExpr: deleteMe = true; return false
PreCallExpr ==
    /\ phase = "pre"
    /\ IsCallOnId(heap, Top.node)
    /\ deleteMe' = TRUE
    /\ LET r == Return(heap, stack, 1)
       IN  stack' = r.stack /\ phase' = r.phase
    /\ visited' = visited \cup {Top.node}
    /\ pending' = pending \cup {Top.node}
    /\ UNCHANGED <<root, heap, depth, removed, mvars>>

\* PreForStmt as it would be if the callback returned false after c.Replace
PreForStmtReturnsFalse ==
    /\ phase = "pre"
    /\ IsLoopOnId(heap, Top.node)
    /\ heap' = Replace(heap, Top, BodyOf(heap, Top.node))
    /\ LET r == Return(heap', stack, 1)
       IN  stack' = r.stack /\ phase' = r.phase
    /\ visited' = visited \cup {Top.node}
    /\ UNCHANGED <<root, depth, deleteMe, pending, removed, mvars>>

\* pre, case *ast.ForStmt: c.Replace(v.Body); break; depth++; return true
PreForStmt ==
    /\ phase = "pre"
    /\ IsLoopOnId(heap, Top.node)
    /\ heap' = Replace(heap, Top, BodyOf(heap, Top.node))
    /\ depth' = depth + 1
    /\ LET r == Descend(heap', stack)
       IN  stack' = r.stack /\ phase' = r.phase
    /\ visited' = visited \cup {Top.node}
    /\ UNCHANGED <<root, deleteMe, pending, removed, mvars>>

\* pre, any other node (a nil one included): depth++; return true
PreOther ==
    /\ phase = "pre"
    /\ ~IsCallOnId(heap, Top.node)
    /\ ~IsLoopOnId(heap, Top.node)
    /\ depth' = depth + 1
    /\ LET r == Descend(heap, stack)
       IN  stack' = r.stack /\ phase' = r.phase
    /\ visited' = visited \cup {Top.node}
    /\ UNCHANGED <<root, heap, deleteMe, pending, removed, mvars>>

\* PostDeletes as it would be if the first element of a list were taken for
\* a node outside any list
PostDeletesPastFirst(d, c) == d /\ Index(c) > 0

\* main.go:355: deleteMe && c.Index() >= 0
PostDeletes(d, c) == d /\ Index(c) >= 0

\* post: depth--; c.Delete(); deleteMe = false; return true
PostDelete ==
    /\ phase = "post"
    /\ PostDeletes(deleteMe, Top)
    /\ depth' = depth - 1
    /\ heap' = Delete(heap, Top)
    /\ deleteMe' = FALSE
    /\ LET r == Return(heap', stack, 0)      \* Delete did c.iter.step--
       IN  stack' = r.stack /\ phase' = r.phase
    /\ removed' = removed \cup
          {[node |-> heap[Top.parent][Top.slot][Index(Top) + 1],
            cursor |-> Top.node, parent |-> Top.parent, slot |-> Top.slot,
            calls |-> pending]}
    /\ pending' = {}
    /\ UNCHANGED <<root, visited, mvars>>

\* post: depth--; return true
PostKeep ==
    /\ phase = "post"
    /\ ~PostDeletes(deleteMe, Top)
    /\ depth' = depth - 1
    /\ LET r == Return(heap, stack, 1)
       IN  stack' = r.stack /\ phase' = r.phase
    /\ UNCHANGED <<root, heap, deleteMe, visited, pending, removed, mvars>>

\* main is not running
MainIdle ==
    /\ pc = "idle"
    /\ pkg = <<>>
    /\ nameFlag = <<>>
    /\ foundBenchFuncs = <<>>
    /\ params = <<>>
    /\ transformed = FALSE
    /\ fs = <<>>
    /\ exit = ""
    /\ log = <<>>
    /\ failed = {}

\* main.go:310-313: depth := 0; deleteMe := false; astutil.Apply(root, ...)
Init ==
    /\ root \in 1..Len(Parsed)
    /\ heap = [n \in DOMAIN Parsed[root] |-> Fields(Parsed[root][n])]
    /\ stack = << [node |-> RootId, parent |-> HolderId, slot |-> 1, index |-> -1] >>
    /\ phase = "pre"
    /\ depth = 0
    /\ deleteMe = FALSE
    /\ visited = {}
    /\ pending = {}
    /\ removed = {}
    /\ MainIdle

Next ==
    \/ PreCallExpr
    \/ PreForStmt
    \/ PreOther
    \/ PostDelete
    \/ PostKeep

Spec == Init /\ [][Next]_vars

-----------------------------------------------------------------------------
(* main: selection of the benchmark function *)

\* the characters of "Benchmark" (main.go:420), "Test"
Benchmark == <<"B", "e", "n", "c", "h", "m", "a", "r", "k">>
Test == <<"T", "e", "s", "t">>

\* names of the functions in the test files
FuncNames == { Benchmark \o <<"A">>, Benchmark \o <<"A", "B">>, Test \o <<"A">> }

\* values of -n
NameFlags == { <<"A">>, <<"A", "B">> }

\* a declaration: a function with its name, or a var/type/const/import declaration
Decls == { [func |-> TRUE, name |-> n] : n \in FuncNames } \cup { [func |-> FALSE, name |-> <<>>] }

\* the parameter lists a function declaration can have: per field, the number
\* of names (0: a type alone)
ParamLists == { <<>>, <<1>>, <<0>>, <<2>>, <<1, 1>> }

\* a test file with n declarations; one without may also be one that does not parse
FilesWith(n) ==
    { [parsed |-> TRUE, decls |-> d] : d \in [1..n -> Decls] }
    \cup (IF n = 0 THEN { [parsed |-> FALSE, decls |-> <<>>] } ELSE {})

RECURSIVE PkgsWith(_, _)
\* k test files with n declarations at most
PkgsWith(k, n) ==
    IF k = 0 THEN { <<>> }
    ELSE UNION { { <<fl>> \o rest : fl \in FilesWith(m), rest \in PkgsWith(k - 1, n - m) } :
                 m \in 0..n }

\* pkg.TestGoFiles followed by pkg.XTestGoFiles
Pkgs == UNION { PkgsWith(k, MaxDecls) : k \in 0..MaxFiles }

\* strings.HasPrefix
HasPrefix(str, prefix) ==
    Len(str) >= Len(prefix) /\ SubSeq(str, 1, Len(prefix)) = prefix

\* regexp.MustCompile(".*" + *nameFlag + ".*").MatchString, for a flag without
\* metacharacters: the name contains the flag
MatchString(flag, str) ==
    \E k \in 0..(Len(str) - Len(flag)) : SubSeq(str, k + 1, k + Len(flag)) = flag

\* IsBenchmarkFunc as it would be without the test of the prefix
IsFuncMatching(d, flag) == d.func /\ MatchString(flag, d.name)

\* main.go:420: the declarations findBenchmarkFuncs keeps
IsBenchmarkFunc(d, flag) ==
    d.func /\ HasPrefix(d.name, Benchmark) /\ MatchString(flag, d.name)

RECURSIVE FuncsInFile(_, _, _)
\* main.go:418-427: the matches among the declarations of one file
FuncsInFile(file, decls, flag) ==
    IF decls = <<>> THEN <<>>
    ELSE (IF IsBenchmarkFunc(Head(decls), flag)
          THEN << [file |-> file, name |-> Head(decls).name] >> ELSE <<>>)
         \o FuncsInFile(file, Tail(decls), flag)

RECURSIVE FindFrom(_, _, _)
\* main.go:410-428: the files from the k-th on; one that does not parse is skipped
FindFrom(files, k, flag) ==
    IF k > Len(files) THEN <<>>
    ELSE (IF files[k].parsed THEN FuncsInFile(k, files[k].decls, flag) ELSE <<>>)
         \o FindFrom(files, k + 1, flag)

\* findBenchmarkFuncs
findBenchmarkFuncs(p, flag) == FindFrom(p, 1, flag)

\* NumFields as it would be if it counted the fields, not their names
NumFieldLists(ps) == Len(ps)

\* (*ast.FieldList).NumFields: the names of all fields, a field without a name
\* counting for one
RECURSIVE NumFields(_)
NumFields(ps) ==
    IF ps = <<>> THEN 0
    ELSE (IF Head(ps) = 0 THEN 1 ELSE Head(ps)) + NumFields(Tail(ps))

-----------------------------------------------------------------------------
(* main: the steps *)

NoFiles == [tmpDir |-> FALSE, bborig |-> FALSE, copied |-> 0, rewritten |-> "no",
            renamed |-> 0, mainGo |-> "absent", goMod |-> FALSE, tidied |-> FALSE,
            binary |-> FALSE]

\* die(...): os.Exit(1)
Die(why) == pc' = "exited" /\ exit' = why

\* a step that does nothing but succeed or fail
Started(step) == log' = Append(log, step)

\* main.go:77-90
FindBenchmarkFuncs ==
    /\ pc = "findBenchmarkFuncs"
    /\ Started("findBenchmarkFuncs")
    /\ foundBenchFuncs' = findBenchmarkFuncs(pkg, nameFlag)
    /\ IF Len(foundBenchFuncs') = 0 THEN Die("no match")
       ELSE IF Len(foundBenchFuncs') > 1 THEN Die("ambiguous")
       ELSE pc' = "MkdirTemp" /\ exit' = exit
    /\ UNCHANGED <<pkg, nameFlag, params, transformed, fs, failed, tvars>>

\* main.go:92-101
MkdirTemp ==
    /\ pc = "MkdirTemp"
    /\ Started("MkdirTemp")
    /\ \E ok \in BOOLEAN :
          IF ok THEN /\ fs' = [fs EXCEPT !.tmpDir = TRUE]
                     /\ pc' = "Mkdir" /\ exit' = exit /\ failed' = failed
          ELSE Die("MkdirTemp") /\ failed' = failed \cup {"MkdirTemp"} /\ fs' = fs
    /\ UNCHANGED <<pkg, nameFlag, foundBenchFuncs, params, transformed, tvars>>

\* main.go:103-108
Mkdir ==
    /\ pc = "Mkdir"
    /\ Started("Mkdir")
    /\ \E ok \in BOOLEAN :
          IF ok THEN /\ fs' = [fs EXCEPT !.bborig = TRUE]
                     /\ pc' = "copyModuleToTmp" /\ exit' = exit /\ failed' = failed
          ELSE Die("Mkdir") /\ failed' = failed \cup {"Mkdir"} /\ fs' = fs
    /\ UNCHANGED <<pkg, nameFlag, foundBenchFuncs, params, transformed, tvars>>

\* main.go:110-113, 364-384: the files are copied one after the other; an error
\* ends the copy where it stands
CopyModuleToTmp ==
    /\ pc = "copyModuleToTmp"
    /\ Started("copyModuleToTmp")
    /\ \E ok \in BOOLEAN, k \in 0..Len(pkg) :
          /\ ok => k = Len(pkg)
          /\ fs' = [fs EXCEPT !.copied = k]
          /\ IF ok THEN pc' = "Rel" /\ exit' = exit /\ failed' = failed
             ELSE Die("copyModuleToTmp") /\ failed' = failed \cup {"copyModuleToTmp"}
    /\ UNCHANGED <<pkg, nameFlag, foundBenchFuncs, params, transformed, tvars>>

\* main.go:115-118
Rel ==
    /\ pc = "Rel"
    /\ Started("Rel")
    /\ \E ok \in BOOLEAN :
          IF ok THEN pc' = "rewrite.ParseFile" /\ exit' = exit /\ failed' = failed
          ELSE Die("Rel") /\ failed' = failed \cup {"Rel"}
    /\ UNCHANGED <<pkg, nameFlag, foundBenchFuncs, params, transformed, fs, tvars>>

\* main.go:126-129, 231-258: rewriteBenchFuncInPlace parses the copy, finds the
\* declaration by name and checks its parameters
RewriteParse ==
    /\ pc = "rewrite.ParseFile"
    /\ Started("rewrite")
    /\ \E ok \in BOOLEAN, ps \in ParamLists :
          IF ~ok
          THEN Die("rewrite") /\ failed' = failed \cup {"rewrite"} /\ params' = params
          ELSE /\ params' = ps
               /\ failed' = failed
               /\ IF \A k \in 1..Len(pkg[foundBenchFuncs[1].file].decls) :
                        ~(pkg[foundBenchFuncs[1].file].decls[k].func /\
                          pkg[foundBenchFuncs[1].file].decls[k].name = foundBenchFuncs[1].name)
                  THEN pc' = "exited" /\ exit' = "panic"          \* main.go:252-254
                  ELSE IF NumFields(ps) # 1
                  THEN Die("params")                               \* main.go:256-258
                  ELSE pc' = "rewrite.transform" /\ exit' = exit
    /\ UNCHANGED <<pkg, nameFlag, foundBenchFuncs, transformed, fs, tvars>>

\* main.go:260-274: the parameter's identifier is read, the parameters are
\* dropped, the body is rewritten and //go:noinline added; a parameter without
\* a name has no Names[0]
RewriteTransform ==
    /\ pc = "rewrite.transform"
    /\ IF params[1] = 0
       THEN pc' = "exited" /\ exit' = "panic" /\ transformed' = transformed
       ELSE pc' = "rewrite.write" /\ exit' = exit /\ transformed' = TRUE
    /\ UNCHANGED <<pkg, nameFlag, foundBenchFuncs, params, fs, log, failed, tvars>>

\* main.go:277-287: the copy is truncated, then the file is written out
RewriteWrite ==
    /\ pc = "rewrite.write"
    /\ \E r \in {"no", "truncated", "yes"} :
          /\ fs' = [fs EXCEPT !.rewritten = r]
          /\ IF r = "yes" THEN pc' = "renameTestFiles" /\ exit' = exit /\ failed' = failed
             ELSE Die("rewrite") /\ failed' = failed \cup {"rewrite"}
    /\ UNCHANGED <<pkg, nameFlag, foundBenchFuncs, params, transformed, log, tvars>>

\* main.go:131-135, 169-188: the _test.go files are renamed one after the other
RenameTestFiles ==
    /\ pc = "renameTestFiles"
    /\ Started("renameTestFiles")
    /\ \E ok \in BOOLEAN, k \in 0..fs.copied :
          /\ ok => k = fs.copied
          /\ fs' = [fs EXCEPT !.renamed = k]
          /\ IF ok THEN pc' = "renderMainToFile" /\ exit' = exit /\ failed' = failed
             ELSE Die("renameTestFiles") /\ failed' = failed \cup {"renameTestFiles"}
    /\ UNCHANGED <<pkg, nameFlag, foundBenchFuncs, params, transformed, tvars>>

\* main.go:137-146, 201-210: the file is opened, or the run dies; the error of
\* t.Execute is dropped
RenderMainToFile ==
    /\ pc = "renderMainToFile"
    /\ Started("renderMainToFile")
    /\ \E r \in {"absent", "empty", "written"} :
          /\ fs' = [fs EXCEPT !.mainGo = r]
          /\ failed' = IF r = "written" THEN failed ELSE failed \cup {"renderMainToFile"}
          /\ IF r = "absent" THEN Die("renderMainToFile")
             ELSE pc' = "mod init" /\ exit' = exit
    /\ UNCHANGED <<pkg, nameFlag, foundBenchFuncs, params, transformed, tvars>>

\* main.go:148-152
ModInit ==
    /\ pc = "mod init"
    /\ Started("mod init")
    /\ \E ok \in BOOLEAN :
          IF ok THEN /\ fs' = [fs EXCEPT !.goMod = TRUE]
                     /\ pc' = "mod tidy" /\ exit' = exit /\ failed' = failed
          ELSE Die("mod init") /\ failed' = failed \cup {"mod init"} /\ fs' = fs
    /\ UNCHANGED <<pkg, nameFlag, foundBenchFuncs, params, transformed, tvars>>

\* main.go:154-158
ModTidy ==
    /\ pc = "mod tidy"
    /\ Started("mod tidy")
    /\ \E ok \in BOOLEAN :
          IF ok THEN /\ fs' = [fs EXCEPT !.tidied = TRUE]
                     /\ pc' = "build" /\ exit' = exit /\ failed' = failed
          ELSE Die("mod tidy") /\ failed' = failed \cup {"mod tidy"} /\ fs' = fs
    /\ UNCHANGED <<pkg, nameFlag, foundBenchFuncs, params, transformed, tvars>>

\* main.go:160-167
Build ==
    /\ pc = "build"
    /\ Started("build")
    /\ \E ok \in BOOLEAN :
          IF ok THEN /\ fs' = [fs EXCEPT !.binary = TRUE]
                     /\ pc' = "exited" /\ exit' = "ok" /\ failed' = failed
          ELSE Die("build") /\ failed' = failed \cup {"build"} /\ fs' = fs
    /\ UNCHANGED <<pkg, nameFlag, foundBenchFuncs, params, transformed, tvars>>

\* removeReferencesToIdentifier is not running
TransformerIdle ==
    /\ root = 1
    /\ heap = <<>>
    /\ stack = <<>>
    /\ phase = "idle"
    /\ depth = 0
    /\ deleteMe = FALSE
    /\ visited = {}
    /\ pending = {}
    /\ removed = {}

\* main.go:43-75: the flags are read and the package is imported
MainInit ==
    /\ pkg \in Pkgs
    /\ nameFlag \in NameFlags
    /\ pc = "findBenchmarkFuncs"
    /\ foundBenchFuncs = <<>>
    /\ params = <<>>
    /\ transformed = FALSE
    /\ fs = NoFiles
    /\ exit = ""
    /\ log = <<>>
    /\ failed = {}
    /\ TransformerIdle

MainNext ==
    \/ FindBenchmarkFuncs
    \/ MkdirTemp
    \/ Mkdir
    \/ CopyModuleToTmp
    \/ Rel
    \/ RewriteParse
    \/ RewriteTransform
    \/ RewriteWrite
    \/ RenameTestFiles
    \/ RenderMainToFile
    \/ ModInit
    \/ ModTidy
    \/ Build

MainSpec == MainInit /\ [][MainNext]_vars

-----------------------------------------------------------------------------
(* What the claims speak of, read off the parsed body (src) alone *)

Done == phase = "done"

\* the children of node n as parsed, field s
SrcField(n, s) == src[n].slots[s].ids

SrcKids(n) == { k \in UNION { { SrcField(n, s)[j] : j \in 1..Len(SrcField(n, s)) } :
                              s \in 1..Len(src[n].slots) } : k # 0 }

SrcParent(n) == CHOOSE p \in DOMAIN src : n \in SrcKids(p)

RECURSIVE SrcDesc(_)
\* the nodes below n
SrcDesc(n) == UNION { {k} \cup SrcDesc(k) : k \in SrcKids(n) }

\* an identifier that resolves to the declaration of the harness parameter
ResolvesToHarness(e) == e # 0 /\ src[e].kind = "Ident" /\ src[e].obj = ParamObj

\* an identifier spelled like the parameter that resolves to another declaration
ShadowsHarness(e) ==
    e # 0 /\ src[e].kind = "Ident" /\ src[e].name = "b" /\ src[e].obj # ParamObj

\* a member access  e.Sel
MemberAccess(e) == e # 0 /\ src[e].kind = "SelectorExpr"

BaseOf(e) == SrcField(e, 1)[1]

\* a call whose callee is a member access
MemberCall(n) == n # 0 /\ src[n].kind = "CallExpr" /\ MemberAccess(SrcField(n, 1)[1])

CallBase(n) == BaseOf(SrcField(n, 1)[1])

\* a loop whose condition is  ? < e.Sel
BoundedLoop(n) ==
    /\ n # 0
    /\ src[n].kind = "ForStmt"
    /\ SrcField(n, 2)[1] # 0
    /\ src[SrcField(n, 2)[1]].kind = "BinaryExpr"
    /\ src[SrcField(n, 2)[1]].op = "<"
    /\ MemberAccess(SrcField(SrcField(n, 2)[1], 2)[1])

LoopBase(n) == BaseOf(SrcField(SrcField(n, 2)[1], 2)[1])

LoopBody(n) == SrcField(n, 4)[1]

HarnessCall(n) == MemberCall(n) /\ ResolvesToHarness(CallBase(n))

HarnessLoop(n) == BoundedLoop(n) /\ ResolvesToHarness(LoopBase(n))

\* the nodes that own a statement list
StmtLists == { n \in DOMAIN src : src[n].kind = "BlockStmt" }

\* n is an element of a statement list
InStmtList(n) == n \in DOMAIN src /\ n # HolderId /\ SrcParent(n) \in StmtLists

\* an expression statement that consists of a call on the harness parameter
HarnessExprStmt(n) ==
    n # 0 /\ src[n].kind = "ExprStmt" /\ HarnessCall(SrcField(n, 1)[1])

RECURSIVE Reach(_)
\* the nodes of the tree below and including n, as the fields stand now
Reach(n) ==
    IF n = 0 THEN {}
    ELSE {n} \cup UNION { UNION { Reach(heap[n][s][j]) : j \in 1..Len(heap[n][s]) } :
                          s \in 1..Len(heap[n]) }

\* the body removeReferencesToIdentifier returns: parent.Node
Result == Reach(heap[HolderId][1][1])

\* a statement list as parsed, each hoisted loop standing for its body block
Hoisted(n) ==
    [k \in 1..Len(SrcField(n, 1)) |->
        IF HarnessLoop(SrcField(n, 1)[k]) THEN LoopBody(SrcField(n, 1)[k])
        ELSE SrcField(n, 1)[k]]

Pos(l, e) == CHOOSE k \in 1..Len(l) : l[k] = e

\* l keeps elements of m only, each once, in the order of m
KeepsOrder(l, m) ==
    /\ \A k \in 1..Len(l) : \E j \in 1..Len(m) : m[j] = l[k]
    /\ \A k, j \in 1..Len(l) : k < j => Pos(m, l[k]) < Pos(m, l[j])

\* every reference to the harness parameter is the base of the callee of a call
\* or the base of the right-hand operand of a loop's  <  condition
RefsAreCallsOrBounds ==
    \A e \in DOMAIN src : ResolvesToHarness(e) =>
        \/ \E n \in DOMAIN src : HarnessCall(n) /\ CallBase(n) = e
        \/ \E n \in DOMAIN src : HarnessLoop(n) /\ LoopBase(n) = e

-----------------------------------------------------------------------------
(* C1 *)

\* C1 (as claimed): when every reference to the harness parameter is the base of
\* a called member access or of a loop's  <  bound, the returned body holds no
\* identifier that resolves to the harness parameter.
C1_NoResidualReference ==
    (Done /\ RefsAreCallsOrBounds) => \A n \in Result : ~ResolvesToHarness(n)

-----------------------------------------------------------------------------
(* C2 *)

\* a statement that holds a reference to the harness parameter
RefersToHarness(n) == \E e \in {n} \cup SrcDesc(n) : ResolvesToHarness(e)

-----------------------------------------------------------------------------
(* C3 *)

\* the pre-order visit of a loop the hoist rule applies to, the loop an element
\* of a statement list
HoistInList == phase = "pre" /\ HarnessLoop(Top.node) /\ Top.index >= 0 /\ Top.parent \in StmtLists

ListAround(l, k, mid) == SubSeq(l, 1, k - 1) \o mid \o SubSeq(l, k + 1, Len(l))

\* C3 (as claimed): the statements of the loop's body take the loop's place in
\* the list, in their order, and the siblings stay as they are.
C3_BodyStatementsSpliced ==
    [][HoistInList =>
        heap' = [heap EXCEPT ![Top.parent][Top.slot] =
                    ListAround(@, Top.index + 1, SrcField(LoopBody(Top.node), 1))]]_vars

\* C3 (amended): the loop's place in the list is taken by one statement, the
\* loop's body block, which holds the body's statements in their order; the
\* siblings before and after stay in the list, unchanged and in their order.
C3_BodyBlockInPlace ==
    [][HoistInList =>
        /\ heap' = [heap EXCEPT ![Top.parent][Top.slot] =
                       ListAround(@, Top.index + 1, <<LoopBody(Top.node)>>)]
        /\ heap'[LoopBody(Top.node)][1] = SrcField(LoopBody(Top.node), 1)]_vars

\* a loop with a sibling and a statement in its body has been hoisted
C3_Witness ==
    \E n \in visited :
        /\ HarnessLoop(n) /\ InStmtList(n)
        /\ Len(SrcField(SrcParent(n), 1)) >= 2
        /\ Len(SrcField(LoopBody(n), 1)) >= 1
        /\ \E k \in 1..Len(heap[SrcParent(n)][1]) : heap[SrcParent(n)][1][k] = LoopBody(n)

-----------------------------------------------------------------------------
(* C7 *)

\* the call-removal rule fires in this step: the signal is raised and the
\* call's children are not walked
CallRuleFires == deleteMe' /\ Top.node \in pending' /\ Len(stack') <= Len(stack)

\* the loop-hoist rule fires in this step: the loop's place is given to its body
LoopRuleFires == heap'[Top.parent][Top.slot] # heap[Top.parent][Top.slot]

\* the visit leaves the tree and the signal as they are and walks on into the node
LeftAlone == heap' = heap /\ deleteMe' = deleteMe /\ pending' = pending /\ Len(stack') = Len(stack) + 1

\* C7: the rules fire exactly when the base identifier resolves to the harness
\* parameter's own declaration; a call or loop bound on another variable of the
\* same name fires no rule and is left unchanged, and a body that only refers to
\* such a variable is returned as it was.
C7_RulesFollowBinding ==
    /\ [][phase = "pre" =>
            /\ MemberCall(Top.node) =>
                  /\ CallRuleFires <=> ResolvesToHarness(CallBase(Top.node))
                  /\ ShadowsHarness(CallBase(Top.node)) => LeftAlone
            /\ BoundedLoop(Top.node) =>
                  /\ LoopRuleFires <=> ResolvesToHarness(LoopBase(Top.node))
                  /\ ShadowsHarness(LoopBase(Top.node)) => LeftAlone]_vars
    /\ []((Done /\ \A e \in DOMAIN src : ~ResolvesToHarness(e)) =>
            /\ removed = {}
            /\ \A n \in DOMAIN src : heap[n] = Fields(src[n]))

\* a call and a loop on the shadowing variable have been visited and are part
\* of the result, next to a harness call that has been removed
C7_Witness ==
    /\ Done
    /\ \E n \in Result : MemberCall(n) /\ ShadowsHarness(CallBase(n)) /\ n \in visited
    /\ \E n \in Result : BoundedLoop(n) /\ ShadowsHarness(LoopBase(n)) /\ n \in visited
    /\ \E n \in visited : HarnessCall(n) /\ n \notin Result

-----------------------------------------------------------------------------
(* C8 *)

RECURSIVE NearestStmt(_)
\* the nearest ancestor of n (n itself included) that is an element of a
\* statement list
NearestStmt(n) == IF InStmtList(n) THEN n ELSE NearestStmt(SrcParent(n))

\* C8 (as claimed): a signal raised at a harness call is consumed by the nearest
\* ancestor of the call that is an element of a statement list, which is the
\* only node removed on its account; no element of another list is removed.
C8_ConsumedByNearestStatement ==
    \A r \in removed :
        /\ r.parent \in StmtLists
        /\ \A c \in r.calls : r.cursor = NearestStmt(c)

-----------------------------------------------------------------------------
(* C9 *)

\* the loops the hoist rule has fired on
HoistedLoops == { n \in visited : HarnessLoop(n) }

\* C9 (as claimed): the traversal does not descend into a hoisted loop, and the
\* hoisted statements are emitted as they were inside the loop.
C9_NoDescent ==
    \A n \in HoistedLoops :
        /\ SrcDesc(n) \cap visited = {}
        /\ \A k \in SrcDesc(n) : heap[k] = Fields(src[k])

\* C9 (amended): the traversal descends into the loop the hoist rule fired on:
\* the next node visited is the loop's initializer, and the condition, the
\* body and every statement of the body are visited before the traversal
\* returns; harness calls among the hoisted statements are removed.
C9_Descent ==
    /\ [][(phase = "pre" /\ HarnessLoop(Top.node)) =>
            /\ phase' = "pre"
            /\ stack' = Append(stack, [node |-> SrcField(Top.node, 1)[1], parent |-> Top.node,
                                       slot |-> 1, index |-> -1])]_vars
    /\ [](Done => \A n \in HoistedLoops :
            /\ SrcField(n, 2)[1] \in visited
            /\ LoopBody(n) \in visited
            /\ \A k \in 1..Len(SrcField(LoopBody(n), 1)) : SrcField(LoopBody(n), 1)[k] \in visited
            /\ \A k \in 1..Len(heap[LoopBody(n)][1]) : ~HarnessExprStmt(heap[LoopBody(n)][1][k]))

\* a hoisted loop whose body held a harness call: the call is gone from the
\* block that took the loop's place
C9_Witness ==
    /\ Done
    /\ \E n \in HoistedLoops :
          /\ LoopBody(n) \in Result
          /\ \E k \in 1..Len(SrcField(LoopBody(n), 1)) :
                /\ HarnessExprStmt(SrcField(LoopBody(n), 1)[k])
                /\ SrcField(LoopBody(n), 1)[k] \notin Result

-----------------------------------------------------------------------------
(* C10 *)

\* C10: when removeReferencesToIdentifier returns, no signal is pending: every
\* signal raised during the traversal has been cleared within it.
C10_NoSignalAtReturn == Done => (~deleteMe /\ pending = {})

\* the traversal has returned after a signal was raised and consumed
C10_Witness == Done /\ removed # {} /\ \E r \in removed : r.calls # {}

-----------------------------------------------------------------------------
(* C4 *)

\* the number of parameters a parameter list declares
ParamCount(ps) ==
    Cardinality({ <<k, j>> \in (1..Len(ps)) \X (1..2) : j = 1 \/ j <= ps[k] })

\* C4 (as claimed): a declaration with no parameter or with two or more is
\* rejected before the transformation starts and without any file having been
\* created, copied or modified by the run.
C4_RejectedWithoutFiles ==
    /\ (transformed \/ pc = "rewrite.transform") => ParamCount(params) = 1
    /\ exit = "params" => (~transformed /\ fs = NoFiles)

\* C4 (amended): a declaration with no parameter or with two or more is
\* rejected before the transformation starts and before the copy of its source
\* file is rewritten; by then the run has created the scratch directories and
\* copied every source file into them, and nothing else.
C4_RejectedBeforeRewrite ==
    /\ (transformed \/ pc = "rewrite.transform") => ParamCount(params) = 1
    /\ exit = "params" =>
          /\ ParamCount(params) # 1
          /\ ~transformed
          /\ fs = [NoFiles EXCEPT !.tmpDir = TRUE, !.bborig = TRUE, !.copied = Len(pkg)]

\* a declaration with two parameters has been rejected
C4_Witness == exit = "params" /\ ParamCount(params) >= 2

-----------------------------------------------------------------------------
(* C5 *)

\* the declarations of the files that parse that are functions, whose name
\* starts with Benchmark and contains the name flag
Matching ==
    { d \in UNION { { <<k, j>> : j \in 1..Len(pkg[k].decls) } : k \in 1..Len(pkg) } :
        /\ pkg[d[1]].parsed
        /\ pkg[d[1]].decls[d[2]].func
        /\ LET n == pkg[d[1]].decls[d[2]].name
           IN  /\ Len(n) >= Len(Benchmark)
               /\ \A c \in 1..Len(Benchmark) : n[c] = Benchmark[c]
               /\ \E at \in 1..Len(n) : \A c \in 1..Len(nameFlag) :
                     at + c - 1 <= Len(n) /\ n[at + c - 1] = nameFlag[c] }

SelectionError == exit \in {"no match", "ambiguous"}

\* C5: the run goes past selection only when exactly one declaration matches;
\* with none or several it aborts before any directory or file is created,
\* copied, renamed or written.
C5_ExactlyOneMatch ==
    /\ (pc # "findBenchmarkFuncs" /\ ~SelectionError) => Cardinality(Matching) = 1
    /\ (pc # "findBenchmarkFuncs" /\ Cardinality(Matching) = 0) => exit = "no match"
    /\ (pc # "findBenchmarkFuncs" /\ Cardinality(Matching) > 1) => exit = "ambiguous"
    /\ Cardinality(Matching) # 1 => fs = NoFiles
    /\ SelectionError => (pc = "exited" /\ fs = NoFiles /\ log = <<"findBenchmarkFuncs">>)

\* a run aborted because two declarations match, a file that does not parse
\* having been skipped
C5_Witness ==
    /\ exit = "ambiguous"
    /\ Cardinality(Matching) = 2
    /\ \E k \in 1..Len(pkg) : ~pkg[k].parsed
    /\ fs = NoFiles

-----------------------------------------------------------------------------
(* C6 *)

\* the steps after selection, in the order of main
Steps == << "MkdirTemp", "Mkdir", "copyModuleToTmp", "Rel", "rewrite", "renameTestFiles",
            "renderMainToFile", "mod init", "mod tidy", "build" >>

\* C6 (as claimed): the steps after selection run in the order of main, and the
\* failure of any one aborts the run: no later step is run, and the compile
\* step runs only when every earlier step succeeded.
C6_FailFast ==
    /\ log = SubSeq(<<"findBenchmarkFuncs">> \o Steps, 1, Len(log))
    /\ failed # {} => (pc = "exited" /\ exit \notin {"", "ok"} /\ log[Len(log)] \in failed)

====
